---- MODULE Spec2Model ----
(***************************************************************************)
(* A model of src/puzzle.py: the Puzzle class (board, blank position,      *)
(* moves), the Manhattan heuristic and the A* search with its heapq-backed *)
(* open set.                                                               *)
(*                                                                         *)
(* Conventions.  A board is a sequence of rows, a row a sequence of tile   *)
(* labels.  Positions (row, col) are 0-based as in the source, so the cell *)
(* of a position is board[row + 1][col + 1].  A Python value is a record   *)
(* [kind, val]; kind is "Puzzle", "list", "int", "None" or the name of the *)
(* exception the call raised.  The names Dict and heapq, which the source  *)
(* uses without importing them, are read as typing.Dict and the standard   *)
(* library's heapq.                                                        *)
(***************************************************************************)
EXTENDS Integers, Sequences, FiniteSets, TLC

VARIABLES
    \* ---- the Puzzle object under test (PuzzleSpec)
    puzzle,         \* the current Puzzle object, or NoValue before construction
    call,           \* the last call: [name, arg, self, out]
    prev,           \* the call before the last one
    nmoves,         \* number of successful move_blank calls so far
    \* ---- one run of astar_search (Spec)
    initial_puzzle, \* argument of astar_search
    goal_board,     \* argument of astar_search
    goal_positions, \* label -> (row, col) in goal_board
    open_set,       \* the heap list of (f, Puzzle) entries
    came_from,      \* key -> (Puzzle, move)
    g_score,        \* key -> int
    f_score,        \* key -> int
    current,        \* the Puzzle popped last
    moves_left,     \* what the for loop over get_possible_moves() has left
    pc,             \* "loop" at the loop head, "for" before the for loop,
                    \* "returned", "raised"; "idle" when no search runs
    result,         \* the value returned, or the exception raised
    popped_f,       \* the variable _ of line 198: the priority popped last
    expanded,       \* history: the keys popped so far, in the order of the pops
    \* ---- Puzzle objects and the lists they refer to (AliasSpec)
    mem,            \* the list objects allocated so far; an address is an index
    objs,           \* the Puzzle objects created so far, the receiver last
    goal_ref        \* address of the list generate_goal_state returned

puzzleVars == <<puzzle, call, prev, nmoves>>
searchVars == <<initial_puzzle, goal_board, goal_positions, open_set, came_from, g_score, f_score,
                current, moves_left, pc, result, popped_f, expanded>>
aliasVars == <<mem, objs, goal_ref>>
vars == <<puzzle, call, prev, nmoves, initial_puzzle, goal_board, goal_positions, open_set,
          came_from, g_score, f_score, current, moves_left, pc, result, popped_f, expanded,
          mem, objs, goal_ref>>

-----------------------------------------------------------------------------
(* Bounds *)

MaxMoves == 3        \* successful move_blank calls per Puzzle under test
MaxLabel == 4        \* largest label in the 2x2 grids handed to Puzzle()
ScrambleDepth == 2   \* 3x3 start boards lie within this many moves of the goal
MaxDist == 6         \* breadth-first distances are computed up to this depth
MaxSize == 4         \* generate_goal_state is called with sizes 1 .. MaxSize

-----------------------------------------------------------------------------
(* Python values *)

NoValue == [kind |-> "NoValue", val |-> <<>>]
None == [kind |-> "None", val |-> <<>>]
Raise(exc) == [kind |-> exc, val |-> <<>>]
PyList(s) == [kind |-> "list", val |-> s]
PyInt(n) == [kind |-> "int", val |-> n]
IsException(v) == v.kind \in {"ValueError", "IndexError", "TypeError", "KeyError"}

Directions == {"UP", "DOWN", "LEFT", "RIGHT"}

Cells(size) == (0 .. size - 1) \X (0 .. size - 1)

\* Row-major order of positions: the order of the nested range() loops.
RowMajorBefore(a, b) == a[1] < b[1] \/ (a[1] = b[1] /\ a[2] < b[2])

-----------------------------------------------------------------------------
(* class Puzzle *)

\* Puzzle._find_blank: the first cell in row-major order holding 0.
find_blank(board, size) ==
    LET zeros == {z \in Cells(size) : board[z[1] + 1][z[2] + 1] = 0}
    IN  IF zeros = {}
        THEN Raise("ValueError")
        ELSE [kind |-> "tuple",
              val |-> CHOOSE z \in zeros : \A y \in zeros : y = z \/ RowMajorBefore(z, y)]

\* Puzzle.__init__
Puzzle(board, size) ==
    LET b == find_blank(board, size)
    IN  IF b.kind = "ValueError"
        THEN Raise("ValueError")
        ELSE [kind |-> "Puzzle",
              val |-> [board |-> board, size |-> size, blank_pos |-> b.val]]

\* get_possible_moves with the bounds tested against size instead of size - 1
get_possible_moves_offbyone(self) ==
    LET row == self.blank_pos[1]
        col == self.blank_pos[2]
    IN  (IF row > 0 THEN <<"UP">> ELSE <<>>)
        \o (IF row < self.size THEN <<"DOWN">> ELSE <<>>)
        \o (IF col > 0 THEN <<"LEFT">> ELSE <<>>)
        \o (IF col < self.size THEN <<"RIGHT">> ELSE <<>>)

\* Puzzle.get_possible_moves
get_possible_moves(self) ==
    LET row == self.blank_pos[1]
        col == self.blank_pos[2]
    IN  (IF row > 0 THEN <<"UP">> ELSE <<>>)
        \o (IF row < self.size - 1 THEN <<"DOWN">> ELSE <<>>)
        \o (IF col > 0 THEN <<"LEFT">> ELSE <<>>)
        \o (IF col < self.size - 1 THEN <<"RIGHT">> ELSE <<>>)

\* Indexing a Python list of length n with i: negative indices count from
\* the end, anything outside -n .. n-1 raises IndexError (reported as -1).
PyIndex(i, n) ==
    IF 0 <= i /\ i < n THEN i
    ELSE IF -n <= i /\ i < 0 THEN i + n
    ELSE -1

\* move_blank with the two assignments of the swap made one after the other
move_blank_sequential_swap(self, direction) ==
    LET row == self.blank_pos[1]
        col == self.blank_pos[2]
        new_board == self.board
        target == CASE direction = "UP" -> <<row - 1, col>>
                    [] direction = "DOWN" -> <<row + 1, col>>
                    [] direction = "LEFT" -> <<row, col - 1>>
                    [] direction = "RIGHT" -> <<row, col + 1>>
                    [] OTHER -> <<>>
    IN  IF direction \notin Directions
        THEN Raise("ValueError")
        ELSE LET tr == PyIndex(target[1], Len(new_board))
                 tc == IF tr = -1 THEN -1 ELSE PyIndex(target[2], Len(new_board[tr + 1]))
             IN  IF tr = -1 \/ tc = -1
                 THEN Raise("IndexError")
                 ELSE LET step1 == [new_board EXCEPT ![row + 1][col + 1] = new_board[tr + 1][tc + 1]]
                          step2 == [step1 EXCEPT ![tr + 1][tc + 1] = step1[row + 1][col + 1]]
                      IN  Puzzle(step2, self.size)

\* move_blank with the target of LEFT copied from UP
move_blank_left_as_up(self, direction) ==
    LET row == self.blank_pos[1]
        col == self.blank_pos[2]
        new_board == self.board
        target == CASE direction = "UP" -> <<row - 1, col>>
                    [] direction = "DOWN" -> <<row + 1, col>>
                    [] direction = "LEFT" -> <<row - 1, col>>
                    [] direction = "RIGHT" -> <<row, col + 1>>
                    [] OTHER -> <<>>
    IN  IF direction \notin Directions
        THEN Raise("ValueError")
        ELSE LET tr == PyIndex(target[1], Len(new_board))
                 tc == IF tr = -1 THEN -1 ELSE PyIndex(target[2], Len(new_board[tr + 1]))
             IN  IF tr = -1 \/ tc = -1
                 THEN Raise("IndexError")
                 ELSE LET old_blank == new_board[row + 1][col + 1]
                          old_target == new_board[tr + 1][tc + 1]
                          step1 == [new_board EXCEPT ![row + 1][col + 1] = old_target]
                          step2 == [step1 EXCEPT ![tr + 1][tc + 1] = old_blank]
                      IN  Puzzle(step2, self.size)

\* Puzzle.move_blank
move_blank(self, direction) ==
    LET row == self.blank_pos[1]
        col == self.blank_pos[2]
        new_board == self.board
        target == CASE direction = "UP" -> <<row - 1, col>>
                    [] direction = "DOWN" -> <<row + 1, col>>
                    [] direction = "LEFT" -> <<row, col - 1>>
                    [] direction = "RIGHT" -> <<row, col + 1>>
                    [] OTHER -> <<>>
    IN  IF direction \notin Directions
        THEN Raise("ValueError")
        ELSE LET tr == PyIndex(target[1], Len(new_board))
                 tc == IF tr = -1 THEN -1 ELSE PyIndex(target[2], Len(new_board[tr + 1]))
             IN  IF tr = -1 \/ tc = -1
                 THEN Raise("IndexError")
                 ELSE LET old_blank == new_board[row + 1][col + 1]
                          old_target == new_board[tr + 1][tc + 1]
                          step1 == [new_board EXCEPT ![row + 1][col + 1] = old_target]
                          step2 == [step1 EXCEPT ![tr + 1][tc + 1] = old_blank]
                      IN  Puzzle(step2, self.size)

\* Puzzle.is_goal_state
is_goal_state(self, goal) == self.board = goal

\* Puzzle.get_state_key: the board as a tuple of tuples
get_state_key(self) == self.board

\* Puzzle.__eq__
PuzzleEq(a, b) == a.board = b.board

\* generate_goal_state with count starting at 0
generate_goal_state_count_from_zero(size) ==
    [i \in 1 .. size |->
        [j \in 1 .. size |->
            IF i = 1 /\ j = 1
            THEN 0
            ELSE Cardinality({c \in Cells(size) :
                                 /\ c # <<0, 0>>
                                 /\ RowMajorBefore(c, <<i - 1, j - 1>>)})]]

\* generate_goal_state: goal[0][0] is 0 and every other cell gets count,
\* which is 1 + the number of cells other than (0, 0) the loops visited
\* before it.
generate_goal_state(size) ==
    [i \in 1 .. size |->
        [j \in 1 .. size |->
            IF i = 1 /\ j = 1
            THEN 0
            ELSE Cardinality({c \in Cells(size) :
                                 /\ c # <<0, 0>>
                                 /\ RowMajorBefore(c, <<i - 1, j - 1>>)}) + 1]]

-----------------------------------------------------------------------------
(* heuristic *)

\* astar_search, lines 186-189: label -> (row, col) in the goal board; a
\* label occurring twice keeps its last position in row-major order.
GoalLabels(goal) == {goal[c[1] + 1][c[2] + 1] : c \in Cells(Len(goal))}

GoalPositions(goal) ==
    [t \in GoalLabels(goal) |->
        LET at == {c \in Cells(Len(goal)) : goal[c[1] + 1][c[2] + 1] = t}
        IN  CHOOSE z \in at : \A y \in at : y = z \/ RowMajorBefore(y, z)]

Abs(x) == IF x < 0 THEN -x ELSE x

\* Distance without the test tile != 0: the blank is counted as a tile
RECURSIVE Distance_counting_blank(_, _, _, _)
Distance_counting_blank(board, size, gp, k) ==
    IF k >= size * size THEN 0
    ELSE LET row == k \div size
             col == k % size
             tile == board[row + 1][col + 1]
         IN  Abs(row - gp[tile][1]) + Abs(col - gp[tile][2])
             + Distance_counting_blank(board, size, gp, k + 1)

\* Distance with squared instead of absolute differences
RECURSIVE Distance_squared(_, _, _, _)
Distance_squared(board, size, gp, k) ==
    IF k >= size * size THEN 0
    ELSE LET row == k \div size
             col == k % size
             tile == board[row + 1][col + 1]
         IN  (IF tile # 0
              THEN (row - gp[tile][1]) * (row - gp[tile][1])
                   + (col - gp[tile][2]) * (col - gp[tile][2])
              ELSE 0)
             + Distance_squared(board, size, gp, k + 1)

\* The loops of heuristic over row and col, from the k-th cell in row-major
\* order on: the distance added by the cells k .. size*size-1.
RECURSIVE Distance(_, _, _, _)
Distance(board, size, gp, k) ==
    IF k >= size * size THEN 0
    ELSE LET row == k \div size
             col == k % size
             tile == board[row + 1][col + 1]
         IN  (IF tile # 0
              THEN Abs(row - gp[tile][1]) + Abs(col - gp[tile][2])
              ELSE 0)
             + Distance(board, size, gp, k + 1)

\* heuristic: Manhattan distance of the non-blank tiles; KeyError when a
\* tile has no goal position.
heuristic(p, gp) ==
    IF \E c \in Cells(p.size) :
          /\ p.board[c[1] + 1][c[2] + 1] # 0
          /\ p.board[c[1] + 1][c[2] + 1] \notin DOMAIN gp
    THEN Raise("KeyError")
    ELSE PyInt(Distance(p.board, p.size, gp, 0))

-----------------------------------------------------------------------------
(* Reference notions the properties are stated against *)

\* One each of the labels 0 .. size*size-1 in a size-by-size grid.
IsValidBoard(board, size) ==
    /\ Len(board) = size
    /\ \A i \in 1 .. size : Len(board[i]) = size
    /\ \A t \in 0 .. size * size - 1 :
          Cardinality({c \in Cells(size) : board[c[1] + 1][c[2] + 1] = t}) = 1

\* The boards one legal move away from a board.
Neighbours(board, size) ==
    LET p == Puzzle(board, size).val
        ms == get_possible_moves(p)
    IN  {move_blank(p, ms[i]).val.board : i \in 1 .. Len(ms)}

RECURSIVE BFS(_, _, _, _, _)
BFS(frontier, seen, d, goal, size) ==
    IF goal \in frontier THEN d
    ELSE LET next == UNION {Neighbours(b, size) : b \in frontier} \ seen
         IN  IF next = {} THEN -1
             ELSE IF d = MaxDist THEN -2
             ELSE BFS(next, seen \cup next, d + 1, goal, size)

\* Breadth-first distance from board to goal by legal moves; -1 when the
\* goal cannot be reached, -2 when it is not found within MaxDist moves.
ShortestDist(board, goal, size) == BFS({board}, {board}, 0, goal, size)

RECURSIVE Within(_, _, _)
Within(S, k, size) ==
    IF k = 0 THEN S
    ELSE Within(S \cup UNION {Neighbours(b, size) : b \in S}, k - 1, size)

Inverse(m) ==
    CASE m = "UP" -> "DOWN"
      [] m = "DOWN" -> "UP"
      [] m = "LEFT" -> "RIGHT"
      [] m = "RIGHT" -> "LEFT"

SeqToSet(s) == {s[i] : i \in 1 .. Len(s)}

-----------------------------------------------------------------------------
(* PuzzleSpec: a Puzzle is constructed from a grid (parse_input, line 125) *)
(* and its methods are called on it.                                       *)

\* Grids handed to the constructor: the 1x1 grids, every 2x2 grid over
\* 0 .. MaxLabel, and some 3x3 grids (blank in a corner, on an edge, in
\* the interior, duplicated, absent).
InputGrids ==
    {<<<<0>>>>, <<<<1>>>>}
    \cup [1 .. 2 -> [1 .. 2 -> 0 .. MaxLabel]]
    \cup {generate_goal_state(3),
          <<<<1, 0, 2>>, <<3, 4, 5>>, <<6, 7, 8>>>>,
          <<<<1, 4, 2>>, <<3, 0, 5>>, <<6, 7, 8>>>>,
          <<<<2, 1, 3>>, <<4, 5, 6>>, <<7, 8, 0>>>>,
          <<<<1, 0, 2>>, <<3, 0, 5>>, <<6, 7, 7>>>>,
          <<<<1, 2, 3>>, <<4, 5, 6>>, <<7, 8, 9>>>>}

\* Arguments given to move_blank: the four directions and an unknown one.
InputDirections == Directions \cup {"DIAGONAL"}

NoCall == [name |-> "none", arg |-> <<>>, self |-> NoValue, out |-> NoValue]

PuzzleInit ==
    /\ puzzle = NoValue
    /\ call = NoCall
    /\ prev = NoCall
    /\ nmoves = 0
    /\ initial_puzzle = NoValue
    /\ goal_board = <<>>
    /\ goal_positions = <<>>
    /\ open_set = <<>>
    /\ came_from = <<>>
    /\ g_score = <<>>
    /\ f_score = <<>>
    /\ current = NoValue
    /\ moves_left = <<>>
    /\ pc = "idle"
    /\ result = NoValue
    /\ popped_f = NoValue
    /\ expanded = <<>>
    /\ mem = <<>>
    /\ objs = <<>>
    /\ goal_ref = 0

\* Puzzle(board, size), the first call, as parse_input calls it with
\* size = number of rows.
Create(board) ==
    /\ pc = "idle"
    /\ call = NoCall
    /\ LET out == Puzzle(board, Len(board))
       IN  /\ puzzle' = IF out.kind = "Puzzle" THEN out ELSE NoValue
           /\ call' = [name |-> "Puzzle", arg |-> board, self |-> NoValue, out |-> out]
    /\ prev' = call
    /\ UNCHANGED <<nmoves>>
    /\ UNCHANGED searchVars
    /\ UNCHANGED aliasVars

\* puzzle.move_blank(direction); the caller goes on with the returned Puzzle.
MoveBlank(direction) ==
    /\ pc = "idle"
    /\ puzzle.kind = "Puzzle"
    /\ nmoves < MaxMoves
    /\ LET out == move_blank(puzzle.val, direction)
       IN  /\ puzzle' = IF out.kind = "Puzzle" THEN out ELSE puzzle
           /\ nmoves' = IF out.kind = "Puzzle" THEN nmoves + 1 ELSE nmoves
           /\ call' = [name |-> "move_blank", arg |-> direction, self |-> puzzle, out |-> out]
    /\ prev' = call
    /\ UNCHANGED searchVars
    /\ UNCHANGED aliasVars

\* puzzle.get_possible_moves()
GetPossibleMoves ==
    /\ pc = "idle"
    /\ puzzle.kind = "Puzzle"
    /\ call' = [name |-> "get_possible_moves", arg |-> <<>>, self |-> puzzle,
                out |-> PyList(get_possible_moves(puzzle.val))]
    /\ prev' = call
    /\ UNCHANGED <<puzzle, nmoves>>
    /\ UNCHANGED searchVars
    /\ UNCHANGED aliasVars

\* heuristic(puzzle, goal_positions) against the goal of the puzzle's size
Heuristic ==
    /\ pc = "idle"
    /\ puzzle.kind = "Puzzle"
    /\ LET goal == generate_goal_state(puzzle.val.size)
       IN  call' = [name |-> "heuristic", arg |-> goal, self |-> puzzle,
                    out |-> heuristic(puzzle.val, GoalPositions(goal))]
    /\ prev' = call
    /\ UNCHANGED <<puzzle, nmoves>>
    /\ UNCHANGED searchVars
    /\ UNCHANGED aliasVars

\* generate_goal_state(size), called on its own
GenerateGoalState(size) ==
    /\ pc = "idle"
    /\ call = NoCall
    /\ call' = [name |-> "generate_goal_state", arg |-> size, self |-> NoValue,
                out |-> PyList(generate_goal_state(size))]
    /\ prev' = call
    /\ UNCHANGED <<puzzle, nmoves>>
    /\ UNCHANGED searchVars
    /\ UNCHANGED aliasVars

PuzzleNext ==
    \/ \E board \in InputGrids : Create(board)
    \/ \E size \in 1 .. MaxSize : GenerateGoalState(size)
    \/ \E direction \in InputDirections : MoveBlank(direction)
    \/ GetPossibleMoves
    \/ Heuristic

PuzzleSpec == PuzzleInit /\ [][PuzzleNext]_vars

-----------------------------------------------------------------------------
(* heapq on a list of (f, Puzzle) tuples *)

\* (f1, p1) < (f2, p2) on Python tuples: the first components decide when
\* they differ; when they are equal the Puzzles are compared, with __eq__
\* first (equal tuples are not less) and then with <, which Puzzle does not
\* define: TypeError.
TupleLT(a, b) ==
    IF a[1] # b[1] THEN (IF a[1] < b[1] THEN "True" ELSE "False")
    ELSE IF PuzzleEq(a[2], b[2]) THEN "False"
    ELSE "TypeError"

\* heapq._siftdown(heap, startpos, pos), newitem being heap[pos]
RECURSIVE siftdown(_, _, _, _)
siftdown(heap, startpos, pos, newitem) ==
    IF pos > startpos
    THEN LET parentpos == (pos - 1) \div 2
             parent == heap[parentpos + 1]
             lt == TupleLT(newitem, parent)
         IN  IF lt = "TypeError" THEN [heap |-> heap, err |-> "TypeError"]
             ELSE IF lt = "True"
             THEN siftdown([heap EXCEPT ![pos + 1] = parent], startpos, parentpos, newitem)
             ELSE [heap |-> [heap EXCEPT ![pos + 1] = newitem], err |-> ""]
    ELSE [heap |-> [heap EXCEPT ![pos + 1] = newitem], err |-> ""]

\* heapq.heappush(heap, item)
heappush(heap, item) ==
    LET appended == Append(heap, item)
    IN  siftdown(appended, 0, Len(appended) - 1, item)

\* heapq._siftup(heap, pos): the loop that moves the smaller child up,
\* then the trailing _siftdown of newitem
RECURSIVE siftup(_, _, _, _)
siftup(heap, startpos, pos, newitem) ==
    LET endpos == Len(heap)
        childpos == 2 * pos + 1
        rightpos == childpos + 1
    IN  IF childpos < endpos
        THEN LET lt == IF rightpos < endpos
                       THEN TupleLT(heap[childpos + 1], heap[rightpos + 1])
                       ELSE "True"
                 child == IF lt = "False" THEN rightpos ELSE childpos
             IN  IF lt = "TypeError" THEN [heap |-> heap, err |-> "TypeError"]
                 ELSE siftup([heap EXCEPT ![pos + 1] = heap[child + 1]],
                             startpos, child, newitem)
        ELSE siftdown([heap EXCEPT ![pos + 1] = newitem], startpos, pos, newitem)

\* heapq.heappop(heap), for a non-empty heap
heappop(heap) ==
    LET lastelt == heap[Len(heap)]
        rest == SubSeq(heap, 1, Len(heap) - 1)
    IN  IF rest # <<>>
        THEN LET r == siftup([rest EXCEPT ![1] = lastelt], 0, 0, lastelt)
             IN  [heap |-> r.heap, item |-> rest[1], err |-> r.err]
        ELSE [heap |-> rest, item |-> lastelt, err |-> ""]

-----------------------------------------------------------------------------
(* astar_search and reconstruct_path *)

\* reconstruct_path: follow came_from from current back to a key without
\* an entry, collecting the moves, and reverse them.
RECURSIVE PathBack(_, _)
PathBack(cf, current_key) ==
    IF current_key \in DOMAIN cf
    THEN <<cf[current_key][2]>> \o PathBack(cf, get_state_key(cf[current_key][1]))
    ELSE <<>>

Reverse(s) == [i \in 1 .. Len(s) |-> s[Len(s) + 1 - i]]

\* reconstruct_path without the final reversal
reconstruct_path_unreversed(cf, cur) == PathBack(cf, get_state_key(cur))

reconstruct_path(cf, cur) == Reverse(PathBack(cf, get_state_key(cur)))

\* Valid boards of a size (one each of 0 .. size*size-1).
ValidBoards(size) ==
    {b \in [1 .. size -> [1 .. size -> 0 .. size * size - 1]] : IsValidBoard(b, size)}

\* A 3x3 board the goal cannot be reached from: the goal with 1 and 2 swapped.
Transposed3 == <<<<0, 2, 1>>, <<3, 4, 5>>, <<6, 7, 8>>>>

\* The (start, goal) pairs astar_search is called with.
SearchInputs ==
    {<<b, generate_goal_state(1)>> : b \in ValidBoards(1)}
    \cup (ValidBoards(2) \X ValidBoards(2))
    \cup {<<b, generate_goal_state(3)>> :
             b \in Within({generate_goal_state(3)}, ScrambleDepth, 3) \cup {Transposed3}}

\* astar_search up to the while loop (lines 186-195)
Init ==
    /\ puzzle = NoValue
    /\ call = NoCall
    /\ prev = NoCall
    /\ nmoves = 0
    /\ \E in \in SearchInputs :
          /\ initial_puzzle = Puzzle(in[1], Len(in[1])).val
          /\ goal_board = in[2]
    /\ goal_positions = GoalPositions(goal_board)
    /\ open_set = heappush(<<>>, <<0, initial_puzzle>>).heap
    /\ came_from = <<>>
    /\ g_score = (get_state_key(initial_puzzle) :> 0)
    /\ f_score = (get_state_key(initial_puzzle) :>
                     heuristic(initial_puzzle, goal_positions).val)
    /\ current = NoValue
    /\ moves_left = <<>>
    /\ pc = "loop"
    /\ result = NoValue
    /\ popped_f = NoValue
    /\ expanded = <<>>
    /\ mem = <<>>
    /\ objs = <<>>
    /\ goal_ref = 0

\* The loop head, the pop, the goal test and the call of
\* get_possible_moves (lines 197-203, 215)
WhileLoop ==
    /\ pc = "loop"
    /\ IF open_set = <<>>
       THEN /\ pc' = "returned"
            /\ result' = None
            /\ UNCHANGED <<open_set, current, moves_left, popped_f, expanded>>
       ELSE \E popped \in {heappop(open_set)} :
                /\ open_set' = popped.heap
                /\ IF popped.err # ""
                   THEN /\ pc' = "raised"
                        /\ result' = Raise(popped.err)
                        /\ UNCHANGED <<current, moves_left, popped_f, expanded>>
                   ELSE /\ popped_f' = PyInt(popped.item[1])
                        /\ current' = [kind |-> "Puzzle", val |-> popped.item[2]]
                        /\ expanded' = Append(expanded, get_state_key(popped.item[2]))
                        /\ IF is_goal_state(popped.item[2], goal_board)
                           THEN /\ pc' = "returned"
                                /\ result' = PyList(reconstruct_path(came_from, popped.item[2]))
                                /\ UNCHANGED moves_left
                           ELSE /\ moves_left' = get_possible_moves(popped.item[2])
                                /\ pc' = IF moves_left' = <<>> THEN "loop" ELSE "for"
                                /\ UNCHANGED result
    /\ UNCHANGED <<initial_puzzle, goal_board, goal_positions, came_from, g_score, f_score>>
    /\ UNCHANGED puzzleVars
    /\ UNCHANGED aliasVars

\* tentative_g_score with 2 added for the move
tentative_g_plus_two(gs, cur) == gs[get_state_key(cur)] + 2

\* tentative_g_score = g_score[current.get_state_key()] + 1 (line 205)
tentative_g(gs, cur) == gs[get_state_key(cur)] + 1

\* the test of line 208 without the comparison of the scores
is_better_always(gs, neighbor_key, tentative_g_score) == TRUE

\* the test of line 208 with the comparison turned round
is_better_when_worse(gs, neighbor_key, tentative_g_score) ==
    neighbor_key \notin DOMAIN gs \/ tentative_g_score > gs[neighbor_key]

\* neighbor_key not in g_score or tentative_g_score < g_score[neighbor_key]
\* (line 208)
is_better(gs, neighbor_key, tentative_g_score) ==
    neighbor_key \notin DOMAIN gs \/ tentative_g_score < gs[neighbor_key]

\* One iteration of the for loop over the moves of current (lines 203-213)
ForMoves ==
    /\ pc = "for"
    /\ \E move \in {Head(moves_left)} :
       \E neighbor \in {move_blank(current.val, move).val} :
       \E tentative_g_score \in {tentative_g(g_score, current.val)} :
       \E neighbor_key \in {get_state_key(neighbor)} :
          IF is_better(g_score, neighbor_key, tentative_g_score)
          THEN /\ came_from' = (neighbor_key :> <<current.val, move>>) @@ came_from
               /\ g_score' = (neighbor_key :> tentative_g_score) @@ g_score
               /\ \E h \in {heuristic(neighbor, goal_positions)} :
                     IF h.kind # "int"
                     THEN /\ pc' = "raised"
                          /\ result' = Raise(h.kind)
                          /\ UNCHANGED <<f_score, open_set>>
                     ELSE \E f_score_neighbor \in {tentative_g_score + h.val} :
                          \E pushed \in {heappush(open_set, <<f_score_neighbor, neighbor>>)} :
                             /\ f_score' = (neighbor_key :> f_score_neighbor) @@ f_score
                             /\ open_set' = pushed.heap
                             /\ IF pushed.err # ""
                                THEN pc' = "raised" /\ result' = Raise(pushed.err)
                                ELSE /\ pc' = IF Tail(moves_left) = <<>> THEN "loop" ELSE "for"
                                     /\ UNCHANGED result
          ELSE /\ pc' = IF Tail(moves_left) = <<>> THEN "loop" ELSE "for"
               /\ UNCHANGED <<came_from, g_score, f_score, open_set, result>>
    /\ moves_left' = Tail(moves_left)
    /\ UNCHANGED <<initial_puzzle, goal_board, goal_positions, current, popped_f, expanded>>
    /\ UNCHANGED puzzleVars
    /\ UNCHANGED aliasVars

Next ==
    \/ WhileLoop
    \/ ForMoves

Spec == Init /\ [][Next]_vars

\* The loop runs without interruption: a step that can be taken is taken.
FairSpec == Spec /\ WF_vars(Next)

-----------------------------------------------------------------------------
(* Properties of astar_search (Spec, FairSpec) *)

Terminated == pc \in {"returned", "raised"}

StartDist == ShortestDist(initial_puzzle.board, goal_board, initial_puzzle.size)

\* Applying moves[i..] from Puzzle p with move_blank, each move having to be
\* one of get_possible_moves(); the final Puzzle, or IllegalMove.
RECURSIVE Replay(_, _, _)
Replay(p, moves, i) ==
    IF i > Len(moves) THEN [kind |-> "Puzzle", val |-> p]
    ELSE IF moves[i] \notin SeqToSet(get_possible_moves(p)) THEN Raise("IllegalMove")
    ELSE Replay(move_blank(p, moves[i]).val, moves, i + 1)

\* C1: for every start board from which the goal is reachable, astar_search
\* returns a move list whose length is the breadth-first distance from start
\* to goal; start [[1,0],[2,3]] with goal [[0,1],[2,3]] returns ["LEFT"].
C1_ReturnsShortestPath ==
    (Terminated /\ StartDist >= 0) =>
        /\ result.kind = "list"
        /\ Len(result.val) = StartDist
        /\ (/\ initial_puzzle.board = <<<<1, 0>>, <<2, 3>>>>
            /\ goal_board = <<<<0, 1>>, <<2, 3>>>>) => result.val = <<"LEFT">>

\* C2: whenever astar_search returns a move list, replaying it from the start
\* with move_blank uses only legal moves and ends in the goal board; the list
\* is empty exactly when the start board equals the goal board.
C2_ReplayReachesGoal ==
    (pc = "returned" /\ result.kind = "list") =>
        LET end == Replay(initial_puzzle, result.val, 1)
        IN  /\ end.kind = "Puzzle"
            /\ end.val.board = goal_board
            /\ (result.val = <<>>) <=> (initial_puzzle.board = goal_board)

C2_Witness ==
    /\ pc = "returned"
    /\ result.kind = "list"
    /\ Len(result.val) >= 3
    /\ initial_puzzle.board # goal_board

\* C3: astar_search returns None if and only if the goal board cannot be
\* reached from the start board; an unreachable goal ends in None without an
\* exception.
C3_NoneIffUnreachable ==
    Terminated =>
        /\ (result = None) => (StartDist = -1)
        /\ (StartDist = -1) => (result = None)

\* C4: for every valid start board the loop of astar_search ends in one of
\* its two outcomes: the goal is found or the frontier is exhausted.
C4_EndsInAnOutcome == <>(pc = "returned")

-----------------------------------------------------------------------------
(* Properties of the Puzzle class and the heuristic (PuzzleSpec) *)

IsLegal(p, m) == m \in SeqToSet(get_possible_moves(p))

IsCorner(pos, size) == pos[1] \in {0, size - 1} /\ pos[2] \in {0, size - 1}
IsInterior(pos, size) ==
    /\ 0 < pos[1] /\ pos[1] < size - 1
    /\ 0 < pos[2] /\ pos[2] < size - 1

\* The four conditions of the claim: which directions are returned.
DirectionsAsClaimed(c) ==
    LET row == c.self.val.blank_pos[1]
        col == c.self.val.blank_pos[2]
        size == c.self.val.size
        got == SeqToSet(c.out.val)
    IN  /\ got \subseteq Directions
        /\ Len(c.out.val) = Cardinality(got)
        /\ ("UP" \in got) <=> (row > 0)
        /\ ("DOWN" \in got) <=> (row < size - 1)
        /\ ("LEFT" \in got) <=> (col > 0)
        /\ ("RIGHT" \in got) <=> (col < size - 1)

\* The count of the claim: 2 in a corner, 3 on an edge, 4 in the interior.
CountAsClaimed(c) ==
    LET pos == c.self.val.blank_pos
        size == c.self.val.size
        n == Len(c.out.val)
    IN  /\ n \in {2, 3, 4}
        /\ IsCorner(pos, size) => n = 2
        /\ IsInterior(pos, size) => n = 4
        /\ (~IsCorner(pos, size) /\ ~IsInterior(pos, size)) => n = 3

\* C5 as stated: for every board and blank position get_possible_moves
\* returns UP iff row>0, DOWN iff row<size-1, LEFT iff col>0, RIGHT iff
\* col<size-1, hence 2 moves in a corner, 3 on an edge, 4 in the interior.
C5_AsStated ==
    call.name = "get_possible_moves" =>
        DirectionsAsClaimed(call) /\ CountAsClaimed(call)

\* C5 amended: the four conditions hold for every board; the counts 2, 3, 4
\* hold for size >= 2, and a 1x1 board has no move.
C5_PossibleMoves ==
    call.name = "get_possible_moves" =>
        /\ DirectionsAsClaimed(call)
        /\ call.self.val.size >= 2 => CountAsClaimed(call)
        /\ call.self.val.size = 1 => call.out.val = <<>>

C5_Witness ==
    /\ call.name = "get_possible_moves"
    /\ call.self.val.size = 3
    /\ IsInterior(call.self.val.blank_pos, 3)
    /\ Len(call.out.val) = 4

\* C6: move_blank with a direction that is not in get_possible_moves() fails
\* and produces no new state.
C6_IllegalMoveFails ==
    (call.name = "move_blank" /\ ~IsLegal(call.self.val, call.arg)) =>
        /\ IsException(call.out)
        /\ puzzle = call.self

\* C7: for a valid state and a legal move m whose inverse is legal in the
\* resulting state, move_blank(m) then move_blank(inverse of m) returns a
\* state with the grid and blank position of the original.
C7_Applies ==
    /\ prev.name = "move_blank"
    /\ call.name = "move_blank"
    /\ IsValidBoard(prev.self.val.board, prev.self.val.size)
    /\ IsLegal(prev.self.val, prev.arg)
    /\ call.arg = Inverse(prev.arg)
    /\ IsLegal(call.self.val, call.arg)

C7_RoundTrip ==
    C7_Applies =>
        /\ prev.out.kind = "Puzzle"
        /\ call.self = prev.out
        /\ call.out.kind = "Puzzle"
        /\ call.out.val.board = prev.self.val.board
        /\ call.out.val.blank_pos = prev.self.val.blank_pos

C7_Witness ==
    /\ C7_Applies
    /\ call.out.kind = "Puzzle"
    /\ call.self.val.board # call.out.val.board
    /\ call.self.val.size = 3

\* C8: constructing a Puzzle succeeds only for a grid holding one each of
\* 0 .. size*size-1; every other grid fails and yields no state.
C8_CreateValidates ==
    call.name = "Puzzle" =>
        /\ call.out.kind = "Puzzle" => IsValidBoard(call.arg, Len(call.arg))
        /\ ~IsValidBoard(call.arg, Len(call.arg)) =>
              (IsException(call.out) /\ puzzle = NoValue)

\* C9: for every valid state s from which the goal is reachable,
\* 0 <= heuristic(s) <= shortest number of moves from s to the goal, and
\* heuristic(goal) = 0.
C9_Applies ==
    /\ call.name = "heuristic"
    /\ IsValidBoard(call.self.val.board, call.self.val.size)
    /\ ShortestDist(call.self.val.board, call.arg, call.self.val.size) >= 0

C9_Admissible ==
    C9_Applies =>
        /\ call.out.kind = "int"
        /\ 0 <= call.out.val
        /\ call.out.val <= ShortestDist(call.self.val.board, call.arg, call.self.val.size)
        /\ call.self.val.board = call.arg => call.out.val = 0

C9_Witness ==
    /\ C9_Applies
    /\ call.self.val.size = 3
    /\ call.out.val >= 2
    /\ ShortestDist(call.self.val.board, call.arg, call.self.val.size) >= 2

\* The goal boards the heuristic is measured against for a size.
GoalsOf(size) == IF size <= 2 THEN ValidBoards(size) ELSE {generate_goal_state(size)}

\* C10: for every valid state s and legal move m,
\* |heuristic(move_blank(s, m)) - heuristic(s)| <= 1.
C10_Applies ==
    /\ call.name = "move_blank"
    /\ IsValidBoard(call.self.val.board, call.self.val.size)
    /\ IsLegal(call.self.val, call.arg)

C10_Consistent ==
    C10_Applies =>
        /\ call.out.kind = "Puzzle"
        /\ \A goal \in GoalsOf(call.self.val.size) :
              LET gp == GoalPositions(goal)
                  h0 == heuristic(call.self.val, gp)
                  h1 == heuristic(call.out.val, gp)
              IN  /\ h0.kind = "int"
                  /\ h1.kind = "int"
                  /\ Abs(h1.val - h0.val) <= 1

C10_Witness ==
    /\ C10_Applies
    /\ call.self.val.size = 3
    /\ call.out.kind = "Puzzle"
    /\ LET gp == GoalPositions(generate_goal_state(3))
       IN  heuristic(call.out.val, gp).val = heuristic(call.self.val, gp).val - 1

-----------------------------------------------------------------------------
(* Properties of generate_goal_state (PuzzleSpec) *)

\* C11: for every size N >= 1, generate_goal_state(N) returns an N x N grid
\* with 0 at (0, 0) and the label i*N + j at every cell (i, j).
C11_GoalGrid ==
    call.name = "generate_goal_state" =>
        /\ call.out.kind = "list"
        /\ Len(call.out.val) = call.arg
        /\ call.out.val[1][1] = 0
        /\ \A i, j \in 0 .. call.arg - 1 :
              /\ Len(call.out.val[i + 1]) = call.arg
              /\ call.out.val[i + 1][j + 1] = i * call.arg + j

C11_Witness ==
    /\ call.name = "generate_goal_state"
    /\ call.arg = 3
    /\ call.out.val[3][3] = 8

-----------------------------------------------------------------------------
(* Properties of the open set and the score tables (Spec) *)

\* C12: two entries of the open set with the same f are told apart by an
\* insertion counter carried in the entry, so that no push and no pop ever
\* compares two Puzzle objects for order (which raises TypeError).
C12_TieBreakByCounter ==
    /\ \A i, j \in 1 .. Len(open_set) :
          (i # j /\ open_set[i][1] = open_set[j][1]) =>
              /\ Len(open_set[i]) = 3
              /\ Len(open_set[j]) = 3
              /\ open_set[i][2] # open_set[j][2]
    /\ ~(pc = "raised" /\ result.kind = "TypeError")

\* The case of C13, an entry popped after a smaller g was found for its key,
\* needs two entries with the same key in the open set at some time.  No
\* run of Spec gets there: no key is pushed twice.
NoSupersededEntry ==
    /\ \A i, j \in 1 .. Len(open_set) :
          i # j => get_state_key(open_set[i][2]) # get_state_key(open_set[j][2])
    /\ \A i, j \in 1 .. Len(expanded) : i # j => expanded[i] # expanded[j]

\* The boards a walk of exactly n legal moves from a board of S can end in.
RECURSIVE WalkEnds(_, _, _)
WalkEnds(S, n, size) ==
    IF n = 0 THEN S
    ELSE WalkEnds(UNION {Neighbours(b, size) : b \in S}, n - 1, size)

StartKey == get_state_key(initial_puzzle)

\* C14: a key of g_score is never removed and its value never goes up from
\* one step to the next; every value stored is the length of a sequence of
\* legal moves leading from the start board to the board of the key; the
\* value of the start key stays 0.
C14_GScoreSound ==
    /\ [](/\ StartKey \in DOMAIN g_score
          /\ g_score[StartKey] = 0
          /\ \A k \in DOMAIN g_score :
                /\ g_score[k] >= 0
                /\ k \in WalkEnds({initial_puzzle.board}, g_score[k], initial_puzzle.size))
    /\ [][\A k \in DOMAIN g_score :
              /\ k \in DOMAIN g_score'
              /\ g_score'[k] <= g_score[k]]_vars

C14_Witness ==
    /\ Cardinality(DOMAIN g_score) >= 5
    /\ \E k \in DOMAIN g_score : g_score[k] = 3
    /\ pc = "for"

\* Number of times an entry occurs in a heap list.
Occurrences(heap, e) == Cardinality({i \in 1 .. Len(heap) : heap[i] = e})

\* C15: every entry pushed on the open set, the initial one included,
\* carries f = g + heuristic(state), g being g_score of the entry's key at
\* the time of the push; the initial entry so carries heuristic(start).
C15_PushedPriority ==
    /\ []((expanded = <<>> /\ pc = "loop") =>
             open_set = <<<<0 + heuristic(initial_puzzle, goal_positions).val, initial_puzzle>>>>)
    /\ [][\A i \in 1 .. Len(open_set') :
              Occurrences(open_set', open_set'[i]) > Occurrences(open_set, open_set'[i]) =>
                  open_set'[i][1] =
                      g_score'[get_state_key(open_set'[i][2])]
                      + heuristic(open_set'[i][2], goal_positions).val]_vars

\* The part of C15 about the entries pushed in the loop (line 213).
LoopPushesCarryGPlusH ==
    [][\A i \in 1 .. Len(open_set') :
          Occurrences(open_set', open_set'[i]) > Occurrences(open_set, open_set'[i]) =>
              open_set'[i][1] =
                  g_score'[get_state_key(open_set'[i][2])]
                  + heuristic(open_set'[i][2], goal_positions).val]_vars

-----------------------------------------------------------------------------
(* Puzzle objects and the list objects behind them (AliasSpec)              *)
(*                                                                         *)
(* mem[a] is the list object at address a: a row (a sequence of labels) or *)
(* a board (a sequence of row addresses).  A Puzzle object holds the       *)
(* address of its board, as self.board = board stores a reference.         *)

\* The grid a board address stands for.
Deref(m, ref) == [i \in 1 .. Len(m[ref]) |-> m[m[ref][i]]]

\* The addresses of the rows of a board.
RowsOf(m, ref) == {m[ref][i] : i \in 1 .. Len(m[ref])}

\* A list of fresh row lists holding a grid (the list comprehensions of
\* lines 124 and 136).
new_board_list(m, grid) ==
    [mem |-> (m \o grid) \o <<[i \in 1 .. Len(grid) |-> Len(m) + i]>>,
     ref |-> Len(m) + Len(grid) + 1]

\* a copy of the outer list only, as list(board) makes it
deepcopy_outer_only(m, ref) == [mem |-> Append(m, m[ref]), ref |-> Len(m) + 1]

\* copy.deepcopy of a list of lists of ints: fresh rows, fresh outer list
deepcopy(m, ref) == new_board_list(m, Deref(m, ref))

\* Puzzle.__init__ on a board reference
PuzzleObject(m, ref, size) ==
    LET b == find_blank(Deref(m, ref), size)
    IN  IF b.kind = "ValueError"
        THEN Raise("ValueError")
        ELSE [kind |-> "Puzzle",
              val |-> [board |-> ref, size |-> size, blank_pos |-> b.val]]

\* The boards main() can read: valid boards of sizes 1, 2 and two of size 3.
AliasInputs ==
    ValidBoards(1) \cup ValidBoards(2) \cup {generate_goal_state(3), Transposed3}

\* parse_input followed by generate_goal_state(puzzle.size), as in main()
ParseInput(grid) ==
    /\ pc = "idle"
    /\ call = NoCall
    /\ objs = <<>>
    /\ \E b \in {new_board_list(mem, grid)} :
       \E g \in {new_board_list(b.mem, generate_goal_state(Len(grid)))} :
       \E p \in {PuzzleObject(b.mem, b.ref, Len(grid))} :
          /\ mem' = g.mem
          /\ goal_ref' = g.ref
          /\ objs' = <<p.val>>
          /\ call' = [name |-> "parse_input", arg |-> grid, self |-> NoValue, out |-> p]
    /\ prev' = call
    /\ UNCHANGED <<puzzle, nmoves>>
    /\ UNCHANGED searchVars

\* The receiver of the next call: the Puzzle created last.
Receiver == objs[Len(objs)]

\* move_blank on the newest Puzzle object, list objects included.  The copy
\* is dropped again when the call raises.
MoveBlankObject(direction) ==
    /\ pc = "idle"
    /\ objs # <<>>
    /\ Len(objs) <= MaxMoves
    /\ \E self \in {Receiver} :
       \E row \in {self.blank_pos[1]} :
       \E col \in {self.blank_pos[2]} :
       \E new_board \in {deepcopy(mem, self.board)} :
          IF direction \notin Directions
          THEN /\ call' = [name |-> "move_blank", arg |-> direction,
                           self |-> [kind |-> "Puzzle", val |-> self],
                           out |-> Raise("ValueError")]
               /\ UNCHANGED <<mem, objs>>
          ELSE \E target \in {CASE direction = "UP" -> <<row - 1, col>>
                                [] direction = "DOWN" -> <<row + 1, col>>
                                [] direction = "LEFT" -> <<row, col - 1>>
                                [] direction = "RIGHT" -> <<row, col + 1>>} :
               \E tr \in {PyIndex(target[1], Len(new_board.mem[new_board.ref]))} :
               \E tc \in {IF tr = -1 THEN -1
                          ELSE PyIndex(target[2],
                                       Len(new_board.mem[new_board.mem[new_board.ref][tr + 1]]))} :
                  IF tr = -1 \/ tc = -1
                  THEN /\ call' = [name |-> "move_blank", arg |-> direction,
                                   self |-> [kind |-> "Puzzle", val |-> self],
                                   out |-> Raise("IndexError")]
                       /\ UNCHANGED <<mem, objs>>
                  ELSE \E blank_row \in {new_board.mem[new_board.ref][row + 1]} :
                       \E target_row \in {new_board.mem[new_board.ref][tr + 1]} :
                       \E old_blank \in {new_board.mem[blank_row][col + 1]} :
                       \E old_target \in {new_board.mem[target_row][tc + 1]} :
                       \E step1 \in {[new_board.mem EXCEPT ![blank_row][col + 1] = old_target]} :
                       \E step2 \in {[step1 EXCEPT ![target_row][tc + 1] = old_blank]} :
                       \E out \in {PuzzleObject(step2, new_board.ref, self.size)} :
                          /\ mem' = step2
                          /\ objs' = IF out.kind = "Puzzle" THEN Append(objs, out.val) ELSE objs
                          /\ call' = [name |-> "move_blank", arg |-> direction,
                                      self |-> [kind |-> "Puzzle", val |-> self],
                                      out |-> out]
    /\ prev' = call
    /\ UNCHANGED goal_ref
    /\ UNCHANGED <<puzzle, nmoves>>
    /\ UNCHANGED searchVars

\* is_goal_state(goal_board) on the newest Puzzle object: the comparison
\* of line 91 reads the two boards.
IsGoalStateObject ==
    /\ pc = "idle"
    /\ objs # <<>>
    /\ call' = [name |-> "is_goal_state", arg |-> goal_ref,
                self |-> [kind |-> "Puzzle", val |-> Receiver],
                out |-> [kind |-> "bool",
                         val |-> Deref(mem, Receiver.board) = Deref(mem, goal_ref)]]
    /\ prev' = call
    /\ UNCHANGED aliasVars
    /\ UNCHANGED <<puzzle, nmoves>>
    /\ UNCHANGED searchVars

AliasNext ==
    \/ \E grid \in AliasInputs : ParseInput(grid)
    \/ \E direction \in InputDirections : MoveBlankObject(direction)
    \/ IsGoalStateObject

AliasSpec == PuzzleInit /\ [][AliasNext]_vars

-----------------------------------------------------------------------------
(* Properties of the objects (AliasSpec) *)

\* C16: a call of move_blank, legal or not, leaves every Puzzle object that
\* existed before it as it was (board contents, size, blank position); the
\* board of the Puzzle it returns shares no row list, and no outer list,
\* with another Puzzle or with the goal board; the goal board is never
\* modified.
C16_ReceiverUntouched ==
    /\ [][\A i \in 1 .. Len(objs) :
              /\ i <= Len(objs')
              /\ objs'[i] = objs[i]
              /\ Deref(mem', objs[i].board) = Deref(mem, objs[i].board)]_vars
    /\ [](\A i, j \in 1 .. Len(objs) :
              i # j =>
                  /\ objs[i].board # objs[j].board
                  /\ RowsOf(mem, objs[i].board) \cap RowsOf(mem, objs[j].board) = {})
    /\ [](\A i \in 1 .. Len(objs) :
              /\ objs[i].board # goal_ref
              /\ RowsOf(mem, objs[i].board) \cap RowsOf(mem, goal_ref) = {})
    /\ [][goal_ref # 0 =>
              /\ goal_ref' = goal_ref
              /\ Deref(mem', goal_ref) = Deref(mem, goal_ref)]_vars

C16_Witness ==
    /\ Len(objs) >= 3
    /\ call.name = "move_blank"
    /\ call.out.kind = "Puzzle"
    /\ prev.name = "move_blank"
    /\ prev.out.kind = "IndexError"
    /\ Deref(mem, objs[1].board) # Deref(mem, objs[3].board)

-----------------------------------------------------------------------------
(* Validity of the states move_blank produces (PuzzleSpec) *)

\* A Puzzle whose board holds one each of 0 .. size*size-1 and whose
\* blank_pos is the cell holding 0.
IsValidState(p) ==
    /\ IsValidBoard(p.board, p.size)
    /\ p.blank_pos \in Cells(p.size)
    /\ p.board[p.blank_pos[1] + 1][p.blank_pos[2] + 1] = 0

\* The cell next to pos in a direction.
Adjacent(pos, m) ==
    CASE m = "UP" -> <<pos[1] - 1, pos[2]>>
      [] m = "DOWN" -> <<pos[1] + 1, pos[2]>>
      [] m = "LEFT" -> <<pos[1], pos[2] - 1>>
      [] m = "RIGHT" -> <<pos[1], pos[2] + 1>>

C17_Applies ==
    /\ call.name = "move_blank"
    /\ IsValidState(call.self.val)
    /\ IsLegal(call.self.val, call.arg)

\* C17: a Puzzle made from a valid board is a valid state, and a legal
\* move_blank on a valid state returns a valid state (the labels 0 ..
\* N*N-1 once each, blank_pos the cell of 0) that differs from the receiver
\* in exactly two cells: the old blank cell and the cell next to it in the
\* direction of the move.  Hence every state reached from a valid board by
\* legal moves is valid.
C17_LegalMovesKeepValid ==
    /\ (call.name = "Puzzle" /\ IsValidBoard(call.arg, Len(call.arg))) =>
           (call.out.kind = "Puzzle" /\ IsValidState(call.out.val))
    /\ C17_Applies =>
           /\ call.out.kind = "Puzzle"
           /\ call.out.val.size = call.self.val.size
           /\ IsValidState(call.out.val)
           /\ LET old == call.self.val
                  new == call.out.val
                  there == Adjacent(old.blank_pos, call.arg)
              IN  /\ there \in Cells(old.size)
                  /\ {c \in Cells(old.size) :
                         old.board[c[1] + 1][c[2] + 1] # new.board[c[1] + 1][c[2] + 1]}
                        = {old.blank_pos, there}
                  /\ new.blank_pos = there
                  /\ new.board[old.blank_pos[1] + 1][old.blank_pos[2] + 1]
                        = old.board[there[1] + 1][there[2] + 1]

C17_Witness ==
    /\ C17_Applies
    /\ nmoves = 3
    /\ call.self.val.size = 3
    /\ call.arg = "LEFT"
    /\ call.out.kind = "Puzzle"
    /\ prev.name = "move_blank"
    /\ prev.arg = "DOWN"
    /\ IsLegal(prev.self.val, prev.arg)

-----------------------------------------------------------------------------
(* Properties of came_from and of the order of expansion (Spec) *)

\* The key n came_from links back from key k; <<>> when the links run out
\* before that.
RECURSIVE Ancestor(_, _, _)
Ancestor(cf, k, n) ==
    IF n = 0 THEN k
    ELSE IF k \notin DOMAIN cf THEN <<>>
    ELSE Ancestor(cf, get_state_key(cf[k][1]), n - 1)

\* C18: the start key has no came_from entry; for every key k with
\* came_from[k] = (p, m), m is a legal move of p, move_blank(p, m) has the
\* key k, and g_score[k] = g_score[key of p] + 1; so the walk of
\* reconstruct_path from a recorded key reaches the start after exactly
\* g_score[k] links, stops there, and returns a list of length g_score[k].
C18_CameFromChain ==
    /\ StartKey \notin DOMAIN came_from
    /\ \A k \in DOMAIN came_from :
          LET p == came_from[k][1]
              m == came_from[k][2]
          IN  /\ IsLegal(p, m)
              /\ get_state_key(move_blank(p, m).val) = k
              /\ k \in DOMAIN g_score
              /\ get_state_key(p) \in DOMAIN g_score
              /\ g_score[k] = g_score[get_state_key(p)] + 1
              /\ Ancestor(came_from, k, g_score[k]) = StartKey
              /\ Len(reconstruct_path(came_from, Puzzle(k, Len(k)).val)) = g_score[k]

C18_Witness ==
    /\ \E k \in DOMAIN came_from :
          /\ g_score[k] >= 3
          /\ Ancestor(came_from, k, 2) \in DOMAIN came_from
    /\ Cardinality(DOMAIN came_from) >= 5

\* C19: the g_score of a key that has been popped is the breadth-first
\* distance from the start board to its board; g_score and came_from of a
\* popped key do not change afterwards; and from the second pop on (the
\* entries pushed after the start's) the priority popped is never smaller
\* than the one popped before.
C19_ExpansionIsFinal ==
    /\ [](\A i \in 1 .. Len(expanded) :
              g_score[expanded[i]] =
                  ShortestDist(initial_puzzle.board, expanded[i], initial_puzzle.size))
    /\ [][\A i \in 1 .. Len(expanded) :
              /\ g_score'[expanded[i]] = g_score[expanded[i]]
              /\ IF expanded[i] \in DOMAIN came_from
                 THEN /\ expanded[i] \in DOMAIN came_from'
                      /\ came_from'[expanded[i]] = came_from[expanded[i]]
                 ELSE expanded[i] \notin DOMAIN came_from']_vars
    /\ [][(Len(expanded) >= 2 /\ Len(expanded') > Len(expanded)) =>
              popped_f'.val >= popped_f.val]_vars

C19_Witness ==
    /\ Len(expanded) >= 4
    /\ popped_f.val >= 4
    /\ g_score[expanded[Len(expanded)]] >= 2
    /\ pc = "for"

====
